---- MODULE Spec2Model ----
(***************************************************************************)
(* A model of the redis-rust server: the RESP codec of resp_response.rs,   *)
(* the command handlers of command.rs, the per-connection loop of          *)
(* command_handler.rs and the accept loop of client_handler.rs.            *)
(*                                                                         *)
(* A Rust String is modelled as a sequence of one-character strings, so    *)
(* that splitting, slicing, number parsing and case folding are computed   *)
(* the way the code computes them.                                         *)
(***************************************************************************)
EXTENDS Integers, Sequences, FiniteSets, TLC

(***************************************************************************)
(* Bounds of the model.                                                    *)
(***************************************************************************)
MaxConns == 2
MaxSends == 3
MaxTime == 2
\* The largest element count whose allocation the model takes to succeed on
\* every host.
MaxAlloc == 1000000

Conns == 1..MaxConns

(***************************************************************************)
(* Characters and text helpers.                                            *)
(***************************************************************************)
CR == "\r"
LF == "\n"
CRLF == <<CR, LF>>
PLUS_CHAR == "+"
DOLLAR_SIGN_CHAR == "$"
ASTERISK_ == "*"

\* A byte that is not valid UTF-8 on its own (0xFF).
BadByte == "0xFF"

\* Option: None, or Some(x) holding x
None == <<>>
Some(x) == <<x>>
Unwrap(o) == o[1]

I32Max == 2147483647

Digits == <<"0", "1", "2", "3", "4", "5", "6", "7", "8", "9">>
IsDigit(ch) == \E i \in 1..10 : Digits[i] = ch
DigitVal(ch) == (CHOOSE i \in 1..10 : Digits[i] = ch) - 1

Lower == <<"a","b","c","d","e","f","g","h","i","j","k","l","m",
           "n","o","p","q","r","s","t","u","v","w","x","y","z">>
Upper == <<"A","B","C","D","E","F","G","H","I","J","K","L","M",
           "N","O","P","Q","R","S","T","U","V","W","X","Y","Z">>

\* char::to_ascii_uppercase
UpperChar(ch) ==
    IF \E i \in 1..26 : Lower[i] = ch
    THEN Upper[CHOOSE i \in 1..26 : Lower[i] = ch]
    ELSE ch

\* str::to_ascii_uppercase
to_ascii_uppercase(s) == [i \in 1..Len(s) |-> UpperChar(s[i])]

\* &s[from..] with a 0-based byte offset
SliceFrom(s, from) == SubSeq(s, from + 1, Len(s))

RECURSIVE Concat(_)
Concat(ss) == IF ss = <<>> THEN <<>> ELSE Head(ss) \o Concat(Tail(ss))

\* format!("{}", n) for n >= 0
RECURSIVE Decimal(_)
Decimal(n) == IF n < 10 THEN <<Digits[n + 1]>>
              ELSE Decimal(n \div 10) \o <<Digits[(n % 10) + 1]>>

\* std::str::from_utf8 succeeds on the chunk
IsUtf8(bytes) == \A i \in 1..Len(bytes) : bytes[i] # BadByte

\* The positions at which "\r\n" occurs in s; two occurrences never overlap
CrlfAt(s) == {i \in 1..(Len(s) - 1) : s[i] = CR /\ s[i + 1] = LF}

\* The j-th smallest position of P
NthOf(P, j) == CHOOSE p \in P : Cardinality({q \in P : q < p}) = j - 1

\* The pieces of s between the successive occurrences P of the separator
PiecesOf(s, P) ==
    [j \in 1..(Cardinality(P) + 1) |->
        SubSeq(s, IF j = 1 THEN 1 ELSE NthOf(P, j - 1) + 2,
                  IF j = Cardinality(P) + 1 THEN Len(s) ELSE NthOf(P, j) - 1)]

\* str::split(CRLF): the pieces between successive "\r\n"
SplitCRLF(s) == PiecesOf(s, CrlfAt(s))

\* The magnitude of an all-digit string, or -1 when it does not fit an i32
\* magnitude (2^31 for negatives is folded into the overflow case).
RECURSIVE DigitsValue(_, _)
DigitsValue(s, acc) ==
    IF s = <<>> THEN acc
    ELSE IF acc > (I32Max - DigitVal(Head(s))) \div 10 THEN -1
    ELSE DigitsValue(Tail(s), acc * 10 + DigitVal(Head(s)))

AllDigits(s) == s # <<>> /\ \A i \in 1..Len(s) : IsDigit(s[i])

\* str::parse::<i32>(): an optional sign, then one or more digits.
\* Result: [ok |-> BOOLEAN, v |-> Int]
Magnitude(body) == IF AllDigits(body) THEN DigitsValue(body, 0) ELSE -1

Signed(negative, mag) ==
    IF mag < 0 THEN [ok |-> FALSE, v |-> 0]
    ELSE IF negative THEN [ok |-> TRUE, v |-> 0 - mag]
    ELSE [ok |-> TRUE, v |-> mag]

ParseI32(s) ==
    IF s # <<>> /\ Head(s) \in {"+", "-"}
    THEN Signed(Head(s) = "-", Magnitude(Tail(s)))
    ELSE Signed(FALSE, Magnitude(s))

\* str::parse::<u64>(): an optional '+', then one or more digits.
\* The model keeps expiry arguments within the i32 range.
ParseU64(s) ==
    IF s # <<>> /\ Head(s) = "+"
    THEN Signed(FALSE, Magnitude(Tail(s)))
    ELSE Signed(FALSE, Magnitude(s))

(***************************************************************************)
(* RespResponse (resp_response.rs).                                        *)
(***************************************************************************)
SimpleString(s) == [t |-> "SimpleString", s |-> s]
BulkString(s) == [t |-> "BulkString", s |-> s]
RespArray(a) == [t |-> "RespArray", a |-> a]
NullBulkString == [t |-> "NullBulkString"]

ErrUnknown == <<"-","E","R","R"," ","u","n","k","n","o","w","n"," ",
                "c","o","m","m","a","n","d">>

\* RespResponse::serialize; arrays of the replies are at most one level deep
SerializeFlat(f) ==
    CASE f.t = "SimpleString" -> <<PLUS_CHAR>> \o f.s \o CRLF
      [] f.t = "BulkString" -> <<DOLLAR_SIGN_CHAR>> \o Decimal(Len(f.s)) \o CRLF \o f.s \o CRLF
      [] f.t = "NullBulkString" -> <<DOLLAR_SIGN_CHAR, "-", "1">> \o CRLF
      [] OTHER -> <<>>

RECURSIVE serialize(_)
serialize(f) ==
    IF f.t = "RespArray"
    THEN <<ASTERISK_>> \o Decimal(Len(f.a)) \o CRLF
         \o Concat([i \in 1..Len(f.a) |-> serialize(f.a[i])])
    ELSE SerializeFlat(f)

\* The outcomes of the fallible functions: Ok carries a value, Err is a
\* returned anyhow::Error, Panic unwinds the task, Abort ends the process.
Ok(v, n) == [r |-> "Ok", v |-> v, n |-> n]
Err == [r |-> "Err"]
Panic == [r |-> "Panic"]
Abort == [r |-> "Abort"]

\* parse_simple_string: everything after the '+', the CRLF included
parse_simple_string(command) ==
    LET data == SliceFrom(command, 1) IN Ok(SimpleString(data), Len(data))

\* parse_bulk_string: the piece after the header line, whatever its length
BulkOfLength(parts, length) ==
    IF ~length.ok THEN Err ELSE Ok(BulkString(parts[2]), length.v)

BulkOfParts(parts) ==
    IF Len(parts) < 2 THEN Err ELSE BulkOfLength(parts, ParseI32(parts[1]))

parse_bulk_string(command) == BulkOfParts(SplitCRLF(SliceFrom(command, 1)))

\* Vec::with_capacity(arr_size as usize): a negative size wraps to a huge
\* usize and panics with a capacity overflow; a request the host cannot grant
\* ends in handle_alloc_error, which aborts the process.
WithCapacity(arr_size, allocOk) ==
    IF arr_size < 0 THEN "Panic"
    ELSE IF arr_size > MaxAlloc /\ ~allocOk THEN "Abort"
    ELSE "Ok"

RECURSIVE parse_message(_, _)
RECURSIVE ParseElements(_, _, _, _, _)

\* The loop of parse_array: index is the 0-based position in parts and left
\* the number of elements still to parse.

\* One pass of the loop, el being the parsed element: a failure of the
\* element ends the loop with it, otherwise the element is pushed.
PushElement(parts, index, left, responses, allocOk, el) ==
    IF el.r # "Ok" THEN el
    ELSE ParseElements(parts, index + 2, left - 1, Append(responses, el.v), allocOk)

ParseElements(parts, index, left, responses, allocOk) ==
    IF left = 0 THEN Ok(responses, 0)
    ELSE IF index >= Len(parts) THEN Err
    ELSE IF index + 1 >= Len(parts) THEN Panic
    ELSE PushElement(parts, index, left, responses, allocOk,
                     parse_message(parts[index + 1] \o CRLF \o parts[index + 2], allocOk))

\* The end of parse_array: the elements, or the failure that ended the loop
ArrayOfElements(els, arr_size) ==
    IF els.r # "Ok" THEN els ELSE Ok(RespArray(els.v), arr_size)

ArrayOfSize(parts, arr_size, allocOk) ==
    IF ~arr_size.ok THEN Err
    ELSE CASE WithCapacity(arr_size.v, allocOk) = "Panic" -> Panic
           [] WithCapacity(arr_size.v, allocOk) = "Abort" -> Abort
           [] OTHER -> ArrayOfElements(ParseElements(parts, 1, arr_size.v, <<>>, allocOk),
                                       arr_size.v)

ArrayOfParts(parts, allocOk) == ArrayOfSize(parts, ParseI32(parts[1]), allocOk)

parse_array(command, allocOk) ==
    ArrayOfParts(SplitCRLF(SliceFrom(command, 1)), allocOk)

\* parse_message reporting an error for a leading byte it does not know
UnknownLeadingByteMalformed == Err

\* parse_message, the arm for any other leading byte
UnknownLeadingByte == Ok(SimpleString(ErrUnknown), 0)

\* parse_message: dispatch on the first byte
parse_message(command, allocOk) ==
    IF command = <<>> THEN Panic
    ELSE CASE command[1] = PLUS_CHAR -> parse_simple_string(command)
           [] command[1] = DOLLAR_SIGN_CHAR -> parse_bulk_string(command)
           [] command[1] = ASTERISK_ -> parse_array(command, allocOk)
           [] OTHER -> UnknownLeadingByte

\* get_command_and_args taking a command from an array only
get_command_and_args_array_only(resp) ==
    IF resp.t = "RespArray" /\ resp.a # <<>> /\ resp.a[1].t = "BulkString"
    THEN Ok([command |-> resp.a[1].s, args |-> resp.a], 0)
    ELSE Err

\* RespResponse::get_command_and_args
get_command_and_args(resp) ==
    CASE resp.t = "SimpleString" -> Ok([command |-> resp.s, args |-> <<>>], 0)
      [] resp.t = "RespArray" /\ resp.a # <<>> ->
            IF resp.a[1].t = "BulkString"
            THEN Ok([command |-> resp.a[1].s, args |-> resp.a], 0)
            ELSE Err
      [] OTHER -> Err

\* RespResponse::get_value panics on anything but the two string cases
HasValue(f) == f.t \in {"SimpleString", "BulkString"}
get_value(f) == f.s

\* CommandHandler::get_command_with_args
CommandOfParsed(parsed) ==
    IF parsed.r # "Ok" THEN parsed ELSE get_command_and_args(parsed.v)

get_command_with_args(client_command, allocOk) ==
    CommandOfParsed(parse_message(client_command, allocOk))

(***************************************************************************)
(* Constants of common_variables.rs.                                       *)
(***************************************************************************)
PING_COMMAND == <<"P","I","N","G">>
ECHO_COMMAND == <<"E","C","H","O">>
SET_COMMAND == <<"S","E","T">>
GET_COMMAND == <<"G","E","T">>
CONFIG_COMMAND == <<"C","O","N","F","I","G">>
KEYS_COMMAND == <<"K","E","Y","S">>
DIR_ARG_COMMAND == <<"d","i","r">>
DB_FILENAME_ARG_COMMAND == <<"d","b","f","i","l","e","n","a","m","e">>
PX_ARG_COMMAND == <<"P","X">>
OK_STR == <<"O","K">>
PONG_STR == <<"P","O","N","G">>
STAR == <<"*">>

(***************************************************************************)
(* RedisItem (redis_item.rs); time is in milliseconds.                     *)
(***************************************************************************)
RedisItem_new(data) == [data |-> data, expiration |-> None]
RedisItem_new_with_expiration(data, expiration) ==
    [data |-> data, expiration |-> Some(expiration)]

\* is_expired with >= in place of >: an entry is gone at its deadline already
is_expired_at_deadline(item, t) ==
    IF item.expiration # None THEN t >= Unwrap(item.expiration) ELSE FALSE

\* RedisItem::is_expired at clock reading t
is_expired(item, t) ==
    IF item.expiration # None THEN t > Unwrap(item.expiration) ELSE FALSE

(***************************************************************************)
(* Command handlers (command.rs).  args is the whole argument vector, the  *)
(* command name at index 0; args.get(i) is args[i + 1] here.               *)
(***************************************************************************)
\* args.get(i).unwrap().get_value() returns instead of panicking
ArgIsValue(args, i) == Len(args) > i /\ HasValue(args[i + 1])
ArgValue(args, i) == get_value(args[i + 1])

Reply(f) == [k |-> "Reply", reply |-> f]
Panics == [k |-> "Panic"]

handle_ping_command == SimpleString(PONG_STR)

handle_echo_command(args) ==
    IF Len(args) > 1 THEN args[2] ELSE SimpleString(<<>>)

\* parse_expiration at clock reading t: Ok(None), Ok(instant) or a panic
\* parse_expiration taking the PX argument for the deadline itself, without
\* adding it to the clock
ExpiryOfMillisAbsolute(expire_millis, t) ==
    IF expire_millis.ok THEN Ok(Some(expire_millis.v), 0) ELSE Ok(None, 0)

\* parse_expiration: Some(SystemTime::now() + Duration::from_millis(ms)) when
\* the argument parsed as u64, None otherwise
ExpiryOfMillis(expire_millis, t) ==
    IF expire_millis.ok THEN Ok(Some(t + expire_millis.v), 0) ELSE Ok(None, 0)

parse_expiration(args, t) ==
    IF Len(args) >= 4
    THEN IF ~HasValue(args[4]) THEN Panic
         ELSE IF to_ascii_uppercase(get_value(args[4])) = PX_ARG_COMMAND
              THEN IF ~ArgIsValue(args, 4) THEN Panic
                   ELSE ExpiryOfMillis(ParseU64(ArgValue(args, 4)), t)
              ELSE Ok(None, 0)
    ELSE Ok(None, 0)

\* handle_set_command up to db.lock(): the key and the item to insert
\* The RedisItem handle_set_command builds from the parsed expiration
ItemOf(set_value, expiration) ==
    IF expiration # None
    THEN RedisItem_new_with_expiration(set_value, Unwrap(expiration))
    ELSE RedisItem_new(set_value)

SetWithExpiration(args, expiration) ==
    IF expiration.r # "Ok" THEN Panics
    ELSE [k |-> "Lock", op |-> "SET", key |-> ArgValue(args, 1),
          item |-> ItemOf(ArgValue(args, 2), expiration.v)]

SetPrepare(args, t) ==
    IF ~ArgIsValue(args, 1) \/ ~ArgIsValue(args, 2) THEN Panics
    ELSE SetWithExpiration(args, parse_expiration(args, t))

\* handle_get_command up to db.lock()
GetPrepare(args) ==
    IF ~ArgIsValue(args, 1) THEN Panics
    ELSE [k |-> "Lock", op |-> "GET", key |-> ArgValue(args, 1), item |-> None]

\* handle_keys up to db.lock()
KeysPrepare(args) ==
    IF ~ArgIsValue(args, 1) THEN Panics
    ELSE [k |-> "Lock", op |-> "KEYS", key |-> ArgValue(args, 1), item |-> None]

\* handle_config_get; cli is the ArgHandler record
handle_config_get(get_key, cli) ==
    CASE get_key = DIR_ARG_COMMAND ->
            IF cli.dir = None THEN Panics
            ELSE Reply(RespArray(<<BulkString(DIR_ARG_COMMAND), BulkString(Unwrap(cli.dir))>>))
      [] get_key = DB_FILENAME_ARG_COMMAND ->
            IF cli.dbfilename = None THEN Panics
            ELSE Reply(RespArray(<<BulkString(DB_FILENAME_ARG_COMMAND),
                                   BulkString(Unwrap(cli.dbfilename))>>))
      [] OTHER -> Reply(NullBulkString)

\* handle_config: the subcommand is compared as written
handle_config(args, cli) ==
    IF ~ArgIsValue(args, 1) \/ ~ArgIsValue(args, 2) THEN Panics
    ELSE IF ArgValue(args, 1) = GET_COMMAND
         THEN handle_config_get(ArgValue(args, 2), cli)
         ELSE Reply(NullBulkString)

\* CommandHandler::handle_command and Command::execute, up to the point where
\* a handler either has its reply, panics, or is about to lock the keyspace;
\* command_name is the name in upper case.
Dispatch(command_name, args, t, cli) ==
    CASE command_name = PING_COMMAND -> Reply(handle_ping_command)
      [] command_name = ECHO_COMMAND -> Reply(handle_echo_command(args))
      [] command_name = SET_COMMAND -> SetPrepare(args, t)
      [] command_name = GET_COMMAND -> GetPrepare(args)
      [] command_name = CONFIG_COMMAND -> handle_config(args, cli)
      [] command_name = KEYS_COMMAND -> KeysPrepare(args)
      [] OTHER -> Reply(SimpleString(ErrUnknown))

\* handle_command matching the name as the client spelled it
handle_command_as_spelled(command, args, t, cli) ==
    Dispatch(command, args, t, cli)

handle_command(command, args, t, cli) ==
    Dispatch(to_ascii_uppercase(command), args, t, cli)

\* An insert that keeps the deadline of the entry it replaces when the new
\* item has none
DbInsertKeepExpiry(d, key, item) ==
    [x \in (DOMAIN d) \cup {key} |->
        IF x # key THEN d[x]
        ELSE IF key \in DOMAIN d /\ item.expiration = None
             THEN [data |-> item.data, expiration |-> d[key].expiration]
             ELSE item]

\* An update of an existing entry that writes the data of the new item and
\* leaves the expiration of the old one
DbInsertDataOnly(d, key, item) ==
    [x \in (DOMAIN d) \cup {key} |->
        IF x # key THEN d[x]
        ELSE IF key \in DOMAIN d
             THEN [data |-> item.data, expiration |-> d[key].expiration]
             ELSE item]

\* An insert into a fresh map: the other entries are gone
DbInsertAlone(d, key, item) == [x \in {key} |-> item]

\* HashMap::insert
DbInsert(d, key, item) ==
    [x \in (DOMAIN d) \cup {key} |-> IF x = key THEN item ELSE d[x]]

\* handle_get_command under the lock, at clock reading t
GetReply(d, key, t) ==
    IF key \in DOMAIN d
    THEN IF is_expired(d[key], t) THEN NullBulkString
         ELSE BulkString(d[key].data)
    ELSE NullBulkString

\* handle_keys leaving out the entries that carry an expiry
KeyOrdersWithoutExpiring(d) ==
    {o \in UNION {[1..n -> DOMAIN d] : n \in 0..Cardinality(DOMAIN d)} :
        /\ \A i, j \in DOMAIN o : i # j => o[i] # o[j]
        /\ {o[i] : i \in DOMAIN o} = {k \in DOMAIN d : d[k].expiration = None}}

\* The orders in which HashMap::iter may yield the keys
KeyOrders(d) ==
    {o \in [1..Cardinality(DOMAIN d) -> DOMAIN d] :
        \A i, j \in DOMAIN o : i # j => o[i] # o[j]}

\* handle_keys under the lock, for one iteration order
KeysReply(pattern, order) ==
    IF pattern = STAR
    THEN RespArray([i \in DOMAIN order |-> BulkString(order[i])])
    ELSE NullBulkString

\* A GET that takes its key from the arguments after db.lock(): a missing key
\* panics with the guard alive
PanicsUnderLockOnGet(op) == op = "GET"

\* No handler can panic between db.lock() and the drop of the guard.
PanicsUnderLock(op) == FALSE

(***************************************************************************)
(* The clients.  A client encodes a command as an array of bulk strings    *)
(* and may transmit a frame in two segments; Frames is what the clients of *)
(* this model send.                                                        *)
(***************************************************************************)
EncodeBulk(a) == <<DOLLAR_SIGN_CHAR>> \o Decimal(Len(a)) \o CRLF \o a \o CRLF
EncodeCmd(argv) ==
    <<ASTERISK_>> \o Decimal(Len(argv)) \o CRLF
    \o Concat([i \in 1..Len(argv) |-> EncodeBulk(argv[i])])

KeyK == <<"k">>
ValA == <<"a">>
ValB == <<"b">>

FrameSetA == EncodeCmd(<<SET_COMMAND, KeyK, ValA>>)
FrameSetBPx == EncodeCmd(<<SET_COMMAND, KeyK, ValB, <<"p","x">>, <<"1">>>>)
FrameGet == EncodeCmd(<<GET_COMMAND, KeyK>>)
FrameKeys == EncodeCmd(<<KEYS_COMMAND, STAR>>)
FramePing == EncodeCmd(<<PING_COMMAND>>)
FrameGetNoKey == EncodeCmd(<<GET_COMMAND>>)
FrameSetPxNoMs == EncodeCmd(<<SET_COMMAND, KeyK, ValA, PX_ARG_COMMAND>>)
FrameInline == <<"P","I","N","G">> \o CRLF
FrameHuge == <<"*","2","1","4","7","4","8","3","6","4","7">> \o CRLF
FrameBadUtf8 == <<BadByte>> \o CRLF

\* The frames of the three scenarios: the keyspace commands, the protocol
\* cases on one connection, and the failures of one connection beside another.
KvFrames == <<FrameSetA, FrameSetBPx, FrameGet, FrameKeys>>
ProtoFrames == <<FramePing, FrameGet, FrameSetA, FrameGetNoKey, FrameSetPxNoMs,
                 FrameInline>>
IsoFrames == <<FrameGet, FrameKeys, FrameGetNoKey, FrameHuge, FrameBadUtf8, FrameInline>>

\* The command scenario: names and subcommands in mixed case, names the
\* table does not have, and CONFIG GET of each key
FramePingLower == EncodeCmd(<<<<"p","i","n","g">>>>)
FramePingSimple == <<PLUS_CHAR, "p","I","n","G">>
FrameEchoMixed == EncodeCmd(<<<<"e","C","h","O">>, ValA>>)
FrameSetMixed == EncodeCmd(<<<<"s","E","t">>, KeyK, ValA>>)
FrameGetLower == EncodeCmd(<<<<"g","e","t">>, KeyK>>)
FrameKeysMixed == EncodeCmd(<<<<"K","e","y","s">>, STAR>>)
FrameUnknown == EncodeCmd(<<<<"F","O","O">>, KeyK>>)
FrameUnknownPrefix == EncodeCmd(<<<<"p","i","n">>>>)
FrameConfigGetDir == EncodeCmd(<<<<"c","o","n","f","i","g">>, GET_COMMAND, DIR_ARG_COMMAND>>)
FrameConfigGetLowerDir == EncodeCmd(<<CONFIG_COMMAND, <<"g","e","t">>, DIR_ARG_COMMAND>>)
FrameConfigGetFile == EncodeCmd(<<CONFIG_COMMAND, GET_COMMAND, DB_FILENAME_ARG_COMMAND>>)
FrameConfigGetPort == EncodeCmd(<<CONFIG_COMMAND, GET_COMMAND, <<"p","o","r","t">>>>)

CmdFrames == <<FramePingLower, FramePingSimple, FrameEchoMixed, FrameSetMixed,
               FrameGetLower, FrameKeysMixed, FrameUnknown, FrameUnknownPrefix,
               FrameConfigGetDir, FrameConfigGetLowerDir, FrameConfigGetFile,
               FrameConfigGetPort>>

\* The SET scenario: SET with each form of its optional arguments, a second
\* key, and KEYS
KeyJ == <<"j">>
FrameSetEx == EncodeCmd(<<SET_COMMAND, KeyK, ValA, <<"E","X">>, <<"1">>>>)
FrameSetPxWord == EncodeCmd(<<SET_COMMAND, KeyK, ValA, PX_ARG_COMMAND, <<"x">>>>)
FrameSetPxNegative == EncodeCmd(<<SET_COMMAND, KeyK, ValA, PX_ARG_COMMAND, <<"-","1">>>>)
FrameSetJ == EncodeCmd(<<SET_COMMAND, KeyJ, ValB>>)

SetFrames == <<FrameSetA, FrameSetBPx, FrameSetEx, FrameSetPxWord, FrameSetPxNegative,
               FrameSetPxNoMs, FrameSetJ, FrameKeys>>

\* The effect scenario: every command of the table and one that is not in it
EffectFrames == <<FrameSetA, FrameSetBPx, FrameSetJ, FrameGet, FrameKeys, FramePing,
                  FrameEchoMixed, FrameConfigGetPort, FrameUnknown>>

\* The closing scenario: a command that is answered and one that is not
CloseFrames == <<FrameGet, FrameGetNoKey>>

\* The snapshot scenario: what a client reads of a keyspace loaded at startup
RdbFrames == <<FrameGet, FrameKeys>>

\* BufReader::read into the 1024-byte buffer of run()
BufSize == 1024

VARIABLES
    now,        \* SystemTime::now(), in milliseconds
    db,         \* the keyspace: key -> RedisItem
    mutex,      \* 0, or the connection whose task holds the keyspace mutex
    poisoned,   \* the mutex was held by a task that panicked
    procAlive,  \* the server process (and its accept loop) is running
    args_cli,   \* the ArgHandler record
    pc,         \* where each connection's task is
    inbuf,      \* bytes received on the socket and not yet read by the task
    unsent,     \* the rest of the frame a client is transmitting
    peerClosed, \* the client closed its end
    cmd,        \* the handler state of the command being executed
    reply,      \* the RespResponse about to be written
    out,        \* the replies written, each with the chunk it answers
    flushed,    \* how many replies were flushed
    req,        \* the chunk last read and what the parser made of it
    sent,       \* the frames each client has sent, as indices into frames
    consumed,   \* how many bytes the task has read so far
    mode,       \* which frames the clients choose from
    lastSet,    \* history: per key, the SET whose insert came last
    nulled,     \* history: the keys a GET found expired since their last insert
    obs,        \* history: what the keyspace access of each task observed
    frame,      \* codec: the RespResponse (or the crafted bulk frame) under test
    wire,       \* codec: the text handed to the parser
    src,        \* codec: how wire was made: "whole", "prefix", "crafted", "extract"
    outcome,    \* codec: what the function under test returned
    rdb,        \* the file <dir>/<dbfilename>: None when it cannot be read, or its bytes
    boot        \* where handle_clients is: "start", "serving", "failed", "panicked"

vars == <<now, db, mutex, poisoned, procAlive, args_cli, pc, inbuf, unsent,
          peerClosed, cmd, reply, out, flushed, req, sent, consumed, mode, lastSet, nulled, obs,
                   frame, wire, src, outcome, rdb, boot>>

NoCmd == [k |-> "None"]
NoReq == [r |-> "None", command |-> <<>>, args |-> <<>>, start |-> 0, len |-> 0,
          first |-> "", at |-> 0]
NoReply == [t |-> "None"]
NoFrame == [t |-> "None"]
NoOutcome == [r |-> "None"]
NoObs == [at |-> 0, set |-> None, nulled |-> FALSE, keys |-> {}]

Live == {"read", "lock", "locked", "write", "flush"}

\* ArgHandler::retrieve_args: the options the server was started with.  With
\* both given, populate_database looks for the file; it is not there and the
\* keyspace starts empty.
NoArgs == [dir |-> None, dbfilename |-> None]
DirGiven == <<"/", "d">>
FileGiven == <<"f">>
StartupArgs(m) ==
    CASE m = "cmd" ->
            {NoArgs, [dir |-> Some(DirGiven), dbfilename |-> None],
             [dir |-> Some(DirGiven), dbfilename |-> Some(FileGiven)]}
      [] m = "rdb" -> {[dir |-> Some(DirGiven), dbfilename |-> Some(FileGiven)]}
      [] OTHER -> {NoArgs}

InitServer(m) ==
    /\ now = 0
    /\ db = <<>>
    /\ mutex = 0
    /\ poisoned = FALSE
    /\ procAlive = TRUE
    /\ args_cli \in StartupArgs(m)
    /\ pc = [c \in Conns |-> "queued"]
    /\ inbuf = [c \in Conns |-> <<>>]
    /\ unsent = [c \in Conns |-> <<>>]
    /\ peerClosed = [c \in Conns |-> FALSE]
    /\ cmd = [c \in Conns |-> NoCmd]
    /\ reply = [c \in Conns |-> NoReply]
    /\ out = [c \in Conns |-> <<>>]
    /\ flushed = [c \in Conns |-> 0]
    /\ req = [c \in Conns |-> NoReq]
    /\ sent = [c \in Conns |-> <<>>]
    /\ consumed = [c \in Conns |-> 0]
    /\ mode = m
    /\ lastSet = <<>>
    /\ nulled = {}
    /\ obs = [c \in Conns |-> NoObs]

\* handle_clients has found no file to load and is in its accept loop
Started ==
    /\ rdb = None
    /\ boot = "serving"

\* The server scenarios: the codec variables are idle
InitWith(m) ==
    /\ InitServer(m)
    /\ Started
    /\ frame = NoFrame
    /\ wire = <<>>
    /\ src = "none"
    /\ outcome = NoOutcome

Init == InitWith("proto")
InitKv == InitWith("kv")
InitIso == InitWith("iso")

frames == CASE mode = "kv" -> KvFrames
            [] mode = "proto" -> ProtoFrames
            [] mode = "cmd" -> CmdFrames
            [] mode = "set" -> SetFrames
            [] mode = "rdb" -> RdbFrames
            [] mode = "close" -> CloseFrames
            [] mode = "effect" -> EffectFrames
            [] OTHER -> IsoFrames

\* The connections of the scenario
ModeConns == IF mode \in {"proto", "cmd", "set", "rdb", "effect"} THEN 1..(MaxConns - 1) ELSE Conns

RECURSIVE SentUpTo(_)
SentUpTo(c) == IF c = 0 THEN 0 ELSE Len(sent[c]) + SentUpTo(c - 1)
TotalSent == SentUpTo(MaxConns)

\* The expiry instants held by the keyspace or by a SET about to insert
Expiries ==
    {Unwrap(db[k].expiration) : k \in {x \in DOMAIN db : db[x].expiration # None}}
    \cup {Unwrap(cmd[c].item.expiration) :
            c \in {x \in Conns : cmd[x].k = "Lock" /\ cmd[x].op = "SET"
                                  /\ cmd[x].item.expiration # None}}

\* The clock advances.  The code reads the clock only to add a duration to it
\* and to compare it with a stored expiry, so a reading matters only relative
\* to the expiries: the clock is stepped while some expiry has not passed.
\* SystemTime::now() is read as a clock that does not go back.
Tick ==
    /\ procAlive
    /\ now < MaxTime
    /\ \E e \in Expiries : now <= e
    /\ now' = now + 1
    /\ UNCHANGED <<db, mutex, poisoned, procAlive, args_cli, pc, inbuf, unsent,
                   peerClosed, cmd, reply, out, flushed, req, sent, consumed, mode, lastSet, nulled, obs,
                   frame, wire, src, outcome, rdb, boot>>

\* handle_clients: listener.accept() returns the next connection of the
\* listener's queue (the clients have connected, in the order of their
\* numbers) and a task running process_client is spawned for it.
Accept(c) ==
    /\ procAlive
    /\ boot = "serving"
    /\ pc[c] = "queued"
    /\ c \in ModeConns
    /\ \A d \in Conns : d < c => pc[d] # "queued"
    /\ pc' = [pc EXCEPT ![c] = "read"]
    /\ UNCHANGED <<now, db, mutex, poisoned, procAlive, args_cli, inbuf, unsent,
                   peerClosed, cmd, reply, out, flushed, req, sent, consumed, mode, lastSet, nulled, obs,
                   frame, wire, src, outcome, rdb, boot>>

\* A client transmits frame i, whole (cut = its length) or only its first
\* cut bytes for now.
Send(c, i, cut) ==
    /\ procAlive
    /\ pc[c] \in Live
    /\ ~peerClosed[c]
    /\ unsent[c] = <<>>
    /\ TotalSent < MaxSends
    /\ inbuf' = [inbuf EXCEPT ![c] = @ \o SubSeq(frames[i], 1, cut)]
    /\ unsent' = [unsent EXCEPT ![c] = SubSeq(frames[i], cut + 1, Len(frames[i]))]
    /\ sent' = [sent EXCEPT ![c] = Append(@, i)]
    /\ UNCHANGED <<now, db, mutex, poisoned, procAlive, args_cli, pc, peerClosed,
                   cmd, reply, out, flushed, req, consumed, mode, lastSet, nulled, obs,
                   frame, wire, src, outcome, rdb, boot>>

\* The rest of a frame sent in two segments arrives.
SendRest(c) ==
    /\ procAlive
    /\ pc[c] \in Live
    /\ unsent[c] # <<>>
    /\ inbuf' = [inbuf EXCEPT ![c] = @ \o unsent[c]]
    /\ unsent' = [unsent EXCEPT ![c] = <<>>]
    /\ UNCHANGED <<now, db, mutex, poisoned, procAlive, args_cli, pc, peerClosed,
                   cmd, reply, out, flushed, req, sent, consumed, mode, lastSet, nulled, obs,
                   frame, wire, src, outcome, rdb, boot>>

\* A client closes its socket.
Close(c) ==
    /\ procAlive
    /\ pc[c] \in Live
    /\ ~peerClosed[c]
    /\ unsent[c] = <<>>
    /\ peerClosed' = [peerClosed EXCEPT ![c] = TRUE]
    /\ UNCHANGED <<now, db, mutex, poisoned, procAlive, args_cli, pc, inbuf, unsent,
                   cmd, reply, out, flushed, req, sent, consumed, mode, lastSet, nulled, obs,
                   frame, wire, src, outcome, rdb, boot>>

\* What one pass of run()'s loop makes of a chunk, up to the point where the
\* handler has its reply or is about to lock the keyspace:
\* from_utf8, process_client_command, get_command_with_args, handle_command.
Handled(got, h) == [k |-> h.k, got |-> got, h |-> h]

\* process_client_command: both results are unwrapped
ProcessCommand(got, t, cli) ==
    CASE got.r = "Abort" -> [k |-> "Abort", got |-> got]
      [] got.r \in {"Err", "Panic"} -> [k |-> "Panic", got |-> got]
      [] OTHER -> Handled(got, handle_command(got.v.command, got.v.args, t, cli))

ProcessChunk(chunk, allocOk, t, cli) ==
    IF ~IsUtf8(chunk) THEN [k |-> "IoErr", got |-> Err]
    ELSE ProcessCommand(get_command_with_args(chunk, allocOk), t, cli)

\* reader.read(&mut buffer): what has arrived, up to the size of the buffer
BytesRead(c) == IF Len(inbuf[c]) < BufSize THEN Len(inbuf[c]) ELSE BufSize

\* What a panic of a connection's task does to the process: tokio catches it
\* at the task boundary, the runtime and the other tasks go on.
ProcessSurvivesPanic == TRUE

\* run(): reader.read(&mut buffer) returns; the chunk is decoded, parsed and
\* dispatched.  A read of zero bytes (the client closed) ends the task.
Read(c) ==
    /\ procAlive
    /\ pc[c] = "read"
    /\ IF inbuf[c] = <<>>
       THEN /\ peerClosed[c]
            /\ pc' = [pc EXCEPT ![c] = "done"]
            /\ UNCHANGED <<procAlive, inbuf, cmd, reply, req, consumed>>
       ELSE \E allocOk \in BOOLEAN :
            \E res \in {ProcessChunk(SubSeq(inbuf[c], 1, BytesRead(c)), allocOk,
                                     now, args_cli)} :
            LET n == BytesRead(c)
            IN /\ inbuf' = [inbuf EXCEPT ![c] = SubSeq(@, n + 1, Len(@))]
               /\ consumed' = [consumed EXCEPT ![c] = @ + n]
               /\ req' = [req EXCEPT ![c] =
                            [r |-> IF res.k = "IoErr" THEN "Utf8" ELSE res.got.r,
                             command |-> IF res.got.r = "Ok" THEN res.got.v.command ELSE <<>>,
                             args |-> IF res.got.r = "Ok" THEN res.got.v.args ELSE <<>>,
                             start |-> consumed[c], len |-> n,
                             first |-> inbuf[c][1], at |-> now]]
               /\ procAlive' = IF res.k = "Abort" THEN FALSE
                               ELSE IF res.k = "Panic" THEN ProcessSurvivesPanic
                               ELSE procAlive
               /\ pc' = [pc EXCEPT ![c] =
                            CASE res.k = "IoErr" -> "failed"
                              [] res.k = "Abort" -> "aborted"
                              [] res.k = "Panic" -> "panicked"
                              [] res.k = "Lock" -> "lock"
                              [] OTHER -> "write"]
               /\ cmd' = [cmd EXCEPT ![c] = IF res.k = "Lock" THEN res.h ELSE NoCmd]
               /\ reply' = [reply EXCEPT ![c] =
                            IF res.k = "Reply" THEN res.h.reply ELSE NoReply]
    /\ UNCHANGED <<now, db, mutex, poisoned, args_cli, unsent, peerClosed, out,
                   flushed, sent, mode, lastSet, nulled, obs,
                   frame, wire, src, outcome, rdb, boot>>

\* db.lock().unwrap(): waits for the mutex; a poisoned mutex panics the task.
Lock(c) ==
    /\ procAlive
    /\ pc[c] = "lock"
    /\ mutex = 0
    /\ IF poisoned
       THEN /\ pc' = [pc EXCEPT ![c] = "panicked"]
            /\ procAlive' = ProcessSurvivesPanic
            /\ UNCHANGED mutex
       ELSE /\ pc' = [pc EXCEPT ![c] = "locked"]
            /\ mutex' = c
            /\ UNCHANGED procAlive
    /\ UNCHANGED <<now, db, poisoned, args_cli, inbuf, unsent, peerClosed, cmd,
                   reply, out, flushed, req, sent, consumed, mode, lastSet, nulled, obs,
                   frame, wire, src, outcome, rdb, boot>>

\* The history of a keyspace access by c, taken from the arguments of the
\* command as they were parsed: the SET that came last for a key (its value,
\* the instant now + ms its PX asks for, and the expiry of the entry it
\* replaced), and what a GET or KEYS had before it at its access.
SetOf(a, at) ==
    [v |-> a[3].s,
     exp |-> IF Len(a) >= 5 /\ a[4].s \in {<<"P","X">>, <<"p","x">>, <<"P","x">>, <<"p","X">>}
                /\ AllDigits(a[5].s)
             THEN Some(at + DigitsValue(a[5].s, 0)) ELSE None,
     prev |-> IF a[2].s \in DOMAIN db THEN db[a[2].s].expiration ELSE None]

Observe(c) ==
    IF pc'[c] # "write" THEN UNCHANGED <<lastSet, nulled, obs>>
    ELSE CASE cmd[c].op = "SET" ->
                /\ lastSet' = [k \in (DOMAIN lastSet) \cup {req[c].args[2].s} |->
                                 IF k = req[c].args[2].s
                                 THEN SetOf(req[c].args, req[c].at) ELSE lastSet[k]]
                /\ nulled' = nulled \ {req[c].args[2].s}
                /\ UNCHANGED obs
           [] cmd[c].op = "GET" ->
                /\ obs' = [obs EXCEPT ![c] =
                             [at |-> now,
                              set |-> IF req[c].args[2].s \in DOMAIN lastSet
                                      THEN Some(lastSet[req[c].args[2].s]) ELSE None,
                              nulled |-> req[c].args[2].s \in nulled,
                              keys |-> {}]]
                /\ nulled' = IF req[c].args[2].s \in DOMAIN lastSet
                                 /\ reply'[c] = NullBulkString
                              THEN nulled \cup {req[c].args[2].s} ELSE nulled
                /\ UNCHANGED lastSet
           [] OTHER ->
                /\ obs' = [obs EXCEPT ![c] =
                             [at |-> now, set |-> None, nulled |-> FALSE,
                              keys |-> DOMAIN lastSet]]
                /\ UNCHANGED <<lastSet, nulled>>

\* A handler that hands its MutexGuard on with the reply, so that the task
\* still holds the mutex while it writes
GuardKeptForWrite(c) == c

\* The holder of the mutex once the handler of c has returned: the guard is a
\* local of the handler and is dropped there
GuardAfterReturn(c) == 0

\* The handler's work on the keyspace under the lock, and the drop of the
\* guard when the handler returns.
Access(c) ==
    /\ procAlive
    /\ pc[c] = "locked"
    /\ mutex = c
    /\ mutex' = GuardAfterReturn(c)
    /\ IF PanicsUnderLock(cmd[c].op)
       THEN /\ poisoned' = TRUE
            /\ pc' = [pc EXCEPT ![c] = "panicked"]
            /\ procAlive' = ProcessSurvivesPanic
            /\ UNCHANGED <<db, reply>>
       ELSE /\ pc' = [pc EXCEPT ![c] = "write"]
            /\ UNCHANGED <<poisoned, procAlive>>
            /\ CASE cmd[c].op = "SET" ->
                      /\ db' = DbInsert(db, cmd[c].key, cmd[c].item)
                      /\ reply' = [reply EXCEPT ![c] = SimpleString(OK_STR)]
                 [] cmd[c].op = "GET" ->
                      /\ reply' = [reply EXCEPT ![c] = GetReply(db, cmd[c].key, now)]
                      /\ UNCHANGED db
                 [] OTHER ->
                      /\ \E order \in KeyOrders(db) :
                            reply' = [reply EXCEPT ![c] = KeysReply(cmd[c].key, order)]
                      /\ UNCHANGED db
    /\ Observe(c)
    /\ UNCHANGED <<now, args_cli, inbuf, unsent, peerClosed, cmd, out, flushed,
                   req, sent, consumed, mode, frame, wire, src, outcome, rdb, boot>>

\* print_to_client: writer.write_all(value.serialize()).  Writing to a socket
\* the client has closed may fail, which ends the task with the error.
Write(c) ==
    /\ procAlive
    /\ pc[c] = "write"
    /\ \E fails \in IF peerClosed[c] THEN BOOLEAN ELSE {FALSE} :
         IF fails
         THEN /\ pc' = [pc EXCEPT ![c] = "failed"]
              /\ UNCHANGED out
         ELSE /\ pc' = [pc EXCEPT ![c] = "flush"]
              /\ out' = [out EXCEPT ![c] =
                           Append(@, [bytes |-> serialize(reply[c]),
                                      start |-> req[c].start, len |-> req[c].len])]
    /\ UNCHANGED <<now, db, mutex, poisoned, procAlive, args_cli, inbuf, unsent,
                   peerClosed, cmd, reply, flushed, req, sent, consumed, mode, lastSet, nulled, obs,
                   frame, wire, src, outcome, rdb, boot>>

\* run(): writer.flush(), then back to the read.
Flush(c) ==
    /\ procAlive
    /\ pc[c] = "flush"
    /\ pc' = [pc EXCEPT ![c] = "read"]
    /\ flushed' = [flushed EXCEPT ![c] = Len(out[c])]
    /\ UNCHANGED <<now, db, mutex, poisoned, procAlive, args_cli, inbuf, unsent,
                   peerClosed, cmd, reply, out, req, sent, consumed, mode, lastSet, nulled, obs,
                   frame, wire, src, outcome, rdb, boot>>

\* Where the clients may end the first segment of frame i: at its end (the
\* frame goes out whole) or, in the protocol scenario, after the first byte,
\* after the array header, or before the last CRLF.
Cuts(i) ==
    IF mode = "proto"
    THEN {1, 4, Len(frames[i]) - 2, Len(frames[i])}
    ELSE {Len(frames[i])}

\* The server: the accept loop and the connection tasks
Server ==
    \/ \E c \in Conns : Accept(c)
    \/ \E c \in Conns : Read(c)
    \/ \E c \in Conns : Lock(c)
    \/ \E c \in Conns : Access(c)
    \/ \E c \in Conns : Write(c)
    \/ \E c \in Conns : Flush(c)

Sends == \E c \in Conns : \E i \in DOMAIN frames : \E cut \in Cuts(i) : Send(c, i, cut)

\* The protocol scenario: one client that may split its frames and close.
Next ==
    \/ Server
    \/ Sends
    \/ \E c \in Conns : SendRest(c)
    \/ \E c \in Conns : Close(c)

\* The keyspace scenario: clients that send whole frames, and the clock.
NextKv ==
    \/ Server
    \/ Sends
    \/ Tick

\* The failure scenario: clients that send whole frames and may close.
NextIso ==
    \/ Server
    \/ Sends
    \/ \E c \in Conns : Close(c)

Spec == Init /\ [][Next]_vars
SpecKv == InitKv /\ [][NextKv]_vars
SpecIso == InitIso /\ [][NextIso]_vars

\* The command scenario: one client that sends whole frames.
InitCmd == InitWith("cmd")
NextCmd ==
    \/ Server
    \/ Sends
SpecCmd == InitCmd /\ [][NextCmd]_vars

\* The SET scenario: one client that sends whole frames, and the clock.
InitSet == InitWith("set")
NextSet ==
    \/ Server
    \/ Sends
    \/ Tick
SpecSet == InitSet /\ [][NextSet]_vars


(***************************************************************************)
(* The keyspace contract.  A SET is complete, and a GET is executed, when  *)
(* its handler has worked on the keyspace under the lock (Access); the     *)
(* task then holds the reply it is about to write.                         *)
(***************************************************************************)
\* c has executed a GET and holds its reply
GotReply(c) == pc[c] = "write" /\ cmd[c].k = "Lock" /\ cmd[c].op = "GET"

\* The SET that came last for the key of c's GET, when the GET was executed
SeenSet(c) == Unwrap(obs[c].set)

\* The GET of c was executed while the key's last SET had not run out
InTime(c) == SeenSet(c).exp = None \/ obs[c].at <= Unwrap(SeenSet(c).exp)

\* C1: write-then-read.  Under every interleaving of the connections, a GET k
\* executed after a SET k v is complete replies BulkString(v), provided no
\* later SET of k is complete and the clock read by the GET is not after the
\* expiry given to that SET.
C1_WriteThenRead ==
    \A c \in Conns :
        (GotReply(c) /\ obs[c].set # None /\ InTime(c))
            => reply[c] = BulkString(SeenSet(c).v)

\* A GET answered with the value of a SET with PX, while another connection
\* is in the middle of a SET on the same key
C1_Witness ==
    \E c, d \in Conns :
        /\ c # d
        /\ GotReply(c) /\ obs[c].set # None
        /\ SeenSet(c).exp # None /\ InTime(c)
        /\ reply[c] = BulkString(SeenSet(c).v)
        /\ pc[d] = "lock" /\ cmd[d].op = "SET"

\* C2: overwrite clears expiry.  After SET k v1 PX n and then SET k v2 with no
\* PX, the entry of k holds v2 and no expiry, and a GET k replies
\* BulkString(v2) whatever the clock, the first SET's deadline passed or not.
C2_OverwriteClearsExpiry ==
    /\ \A k \in DOMAIN lastSet :
          (lastSet[k].exp = None /\ lastSet[k].prev # None)
              => (k \in DOMAIN db
                  /\ db[k] = [data |-> lastSet[k].v, expiration |-> None])
    /\ \A c \in Conns :
          (GotReply(c) /\ obs[c].set # None
             /\ SeenSet(c).exp = None /\ SeenSet(c).prev # None)
              => reply[c] = BulkString(SeenSet(c).v)

\* A GET executed after the deadline of the overwritten SET, answered with
\* the value of the SET that overwrote it
C2_Witness ==
    \E c \in Conns :
        /\ GotReply(c) /\ obs[c].set # None
        /\ SeenSet(c).exp = None /\ SeenSet(c).prev # None
        /\ obs[c].at > Unwrap(SeenSet(c).prev)
        /\ reply[c] = BulkString(SeenSet(c).v)

\* C3: lazy expiry boundary.  SET k v PX n stores expires_at = now + n; until
\* k is overwritten, a GET k whose clock reading is <= expires_at replies
\* BulkString(v) and one whose reading is > expires_at replies NullBulk; once
\* a GET has replied NullBulk, no later GET replies v as the clock advances.
C3_LazyExpiry ==
    /\ \A k \in DOMAIN lastSet :
          lastSet[k].exp # None =>
              (k \in DOMAIN db /\ db[k].expiration = lastSet[k].exp)
    /\ \A c \in Conns :
          (GotReply(c) /\ obs[c].set # None /\ SeenSet(c).exp # None)
              => /\ reply[c] = IF obs[c].at <= Unwrap(SeenSet(c).exp)
                               THEN BulkString(SeenSet(c).v)
                               ELSE NullBulkString
                 /\ obs[c].nulled => reply[c] = NullBulkString

\* A GET answered NullBulk after the deadline, an earlier GET of the same
\* entry having been answered NullBulk already
C3_Witness ==
    \E c \in Conns :
        /\ GotReply(c) /\ obs[c].set # None /\ SeenSet(c).exp # None
        /\ obs[c].nulled
        /\ obs[c].at > Unwrap(SeenSet(c).exp)
        /\ reply[c] = NullBulkString

\* The reply a sequential keyspace gives to the command of c, executed at the
\* instant c had the lock: lastSet is the keyspace of the sequential execution
\* that takes the commands in the order of their accesses.
SequentialReply(c, r) ==
    CASE cmd[c].op = "SET" -> r = SimpleString(OK_STR)
      [] cmd[c].op = "GET" ->
            r = IF obs[c].set # None /\ InTime(c)
                THEN BulkString(SeenSet(c).v) ELSE NullBulkString
      [] OTHER ->
            IF cmd[c].key = STAR
            THEN /\ r.t = "RespArray"
                 /\ Len(r.a) = Cardinality(obs[c].keys)
                 /\ {r.a[i] : i \in DOMAIN r.a} = {BulkString(k) : k \in obs[c].keys}
            ELSE r = NullBulkString

\* C10: linearizability of the keyspace.  The accesses are mutually exclusive;
\* every reply to a SET, GET or KEYS is the reply of the sequential execution
\* that takes the commands in the order of their accesses, each within its own
\* command and the commands of one connection in their order; every entry is
\* the value and the expiry of one whole SET, never the value of one and the
\* expiry of another.
C10_Linearizable ==
    /\ \A c, d \in Conns : (pc[c] = "locked" /\ pc[d] = "locked") => c = d
    /\ \A c \in Conns : pc[c] = "locked" <=> mutex = c
    /\ DOMAIN db = DOMAIN lastSet
    /\ \A k \in DOMAIN db :
          db[k] = [data |-> lastSet[k].v, expiration |-> lastSet[k].exp]
    /\ \A c \in Conns :
          (pc[c] = "write" /\ cmd[c].k = "Lock") => SequentialReply(c, reply[c])

\* A GET holds the value of one SET as its reply while the other connection
\* has the lock to insert a different value for the same key
C10_Witness ==
    \E c, d \in Conns :
        /\ c # d
        /\ GotReply(c) /\ obs[c].set # None
        /\ reply[c] = BulkString(SeenSet(c).v)
        /\ pc[d] = "locked" /\ cmd[d].op = "SET" /\ cmd[d].key = cmd[c].key
        /\ cmd[d].item.data # SeenSet(c).v


(***************************************************************************)
(* The connection contract.  sent[c] lists the frames the client of c has  *)
(* transmitted, in order; every reply in out[c] records the chunk of input *)
(* (offset and length in the client's byte stream) it was computed from.   *)
(***************************************************************************)
\* The offset in the byte stream of c at which its i-th frame starts
RECURSIVE FrameStart(_, _)
FrameStart(c, i) ==
    IF i <= 1 THEN 0 ELSE FrameStart(c, i - 1) + Len(frames[sent[c][i - 1]])

\* The task of c has ended
Ended == {"done", "failed", "panicked", "aborted"}

\* C4: per-connection ordering.  The i-th reply written on a connection is
\* the reply to the i-th frame that arrived on it, and the reply to a command
\* is written and flushed before the next command of the connection runs.
C4_RepliesInOrder ==
    \A c \in Conns :
        /\ Len(out[c]) <= Len(sent[c])
        /\ \A i \in DOMAIN out[c] : out[c][i].start = FrameStart(c, i)
        /\ pc[c] \in {"lock", "locked", "write"} => flushed[c] = Len(out[c])

\* C5: one reply per complete frame.  Once the task of a connection has
\* processed everything its client sent (whole frames only, several of them
\* in one read or not) and waits for more, it has written as many replies as
\* complete frames were received.
C5_OneReplyPerFrame ==
    \A c \in Conns :
        (pc[c] = "read" /\ inbuf[c] = <<>> /\ unsent[c] = <<>>)
            => Len(out[c]) = Len(sent[c])

\* The last read of c delivered a proper prefix of a frame: it started where
\* a frame starts and ended before that frame does
PrefixChunk(c) ==
    /\ req[c].r # "None"
    /\ \E j \in DOMAIN sent[c] :
          /\ FrameStart(c, j) = req[c].start
          /\ req[c].len < Len(frames[sent[c][j]])

\* C6: incomplete frame.  When a read delivers only a proper prefix of a
\* frame, the connection stays open, no input is consumed and no command is
\* executed: the task waits for more input with the prefix still unconsumed.
C6_PrefixNotConsumed ==
    \A c \in Conns :
        PrefixChunk(c) => (pc[c] = "read" /\ consumed[c] = req[c].start)

\* The data last read by c starts with a byte that is none of '+', '$', '*'
Malformed(c) ==
    req[c].r # "None" /\ req[c].first \notin {PLUS_CHAR, DOLLAR_SIGN_CHAR, ASTERISK_}

\* A reply was written for the data last read by c
Answered(c) == \E i \in DOMAIN out[c] : out[c][i].start = req[c].start

UnknownReplyBytes ==
    <<"+", "-", "E", "R", "R", " ", "u", "n", "k", "n", "o", "w", "n", " ",
      "c", "o", "m", "m", "a", "n", "d", "\r", "\n">>

ShapeErrorOf(name, a) ==
    \/ name \in {GET_COMMAND, KEYS_COMMAND} /\ Len(a) < 2
    \/ name = SET_COMMAND /\ Len(a) < 3
    \/ name = SET_COMMAND /\ Len(a) = 4 /\ a[4].t = "BulkString"
         /\ to_ascii_uppercase(a[4].s) = PX_ARG_COMMAND
    \/ name = CONFIG_COMMAND /\ Len(a) < 3
    \/ name \in {GET_COMMAND, KEYS_COMMAND, SET_COMMAND, CONFIG_COMMAND, ECHO_COMMAND}
         /\ \E i \in 2..Len(a) : a[i].t = "RespArray"

ShapeError(c) ==
    req[c].r = "Ok" /\ ShapeErrorOf(to_ascii_uppercase(req[c].command), req[c].args)

StartsWithErr(f) ==
    f.t = "SimpleString" /\ Len(f.s) >= 4 /\ SubSeq(f.s, 1, 4) = <<"-", "E", "R", "R">>

\* C8: command shape errors do not disconnect.  A frame that parses but has
\* the wrong number or type of arguments is answered with a SimpleString
\* beginning with -ERR, the keyspace is not touched, and the task stays on the
\* connection.
C8_ShapeErrorAnswered ==
    \A c \in Conns :
        ShapeError(c) =>
            /\ pc[c] \notin {"panicked", "aborted", "lock", "locked"}
            /\ pc[c] = "write" => StartsWithErr(reply[c])

\* C9: connection isolation.  Whatever ended the task of one connection or
\* made its client go away, the process is alive and the keyspace lock usable
\* for every other connection, and the accept loop still accepts.
C9_Isolation ==
    \A c \in Conns :
        (pc[c] \in Ended \/ peerClosed[c]) => (procAlive /\ ~poisoned)


(***************************************************************************)
(* The keyspace mutex.                                                     *)
(***************************************************************************)
\* Where a task is suspended: waiting for the accept loop, in reader.read,
\* in writer.write_all or in writer.flush
Suspended == {"queued", "read", "write", "flush"}

\* C11: the keyspace mutex is never held across a suspension point.  A task
\* suspended in read, write or flush (or not yet accepted) does not hold the
\* mutex; at most one task holds it, and only while that task is inside the
\* keyspace access of the one command it is executing.
C11_NoLockAcrossSuspension ==
    /\ mutex \in {0} \cup Conns
    /\ \A c \in Conns :
          /\ pc[c] \in Suspended \cup Ended => mutex # c
          /\ mutex = c => (pc[c] = "locked" /\ cmd[c].k = "Lock")

\* A task suspended in its write after a keyspace access, while the task of
\* the other connection holds the mutex for its own command
C11_Witness ==
    \E c, d \in Conns :
        /\ c # d
        /\ pc[c] = "write" /\ cmd[c].k = "Lock"
        /\ mutex = d /\ pc[d] = "locked"


(***************************************************************************)
(* The codec on its own: a frame is serialized, the text (or a proper      *)
(* prefix of it, or a bulk frame a client wrote by hand) is parsed, or the *)
(* command is extracted from the frame.                                    *)
(***************************************************************************)
\* The longest payload of the frames under test
MaxLen == 2

\* A NUL byte, which is a character of a Rust String like any other
NUL == "0x00"

RECURSIVE StringsUpTo(_, _)
StringsUpTo(alphabet, n) ==
    IF n = 0 THEN {<<>>}
    ELSE {<<>>} \cup {<<ch>> \o s : ch \in alphabet, s \in StringsUpTo(alphabet, n - 1)}

\* Payloads: any text, with CR, LF, CRLF and NUL in it or not
Payloads == StringsUpTo({"a", CR, LF, NUL}, MaxLen)

\* The frames the serializer is given: every kind, and arrays of the kinds,
\* the empty array and an array in an array among them
FlatFrames ==
    {SimpleString(s) : s \in StringsUpTo({"a", "G"}, MaxLen)}
    \cup {BulkString(s) : s \in Payloads}
    \cup {NullBulkString}

Elements == {SimpleString(<<"a">>), BulkString(<<"a">>), BulkString(<<>>),
             NullBulkString, RespArray(<<>>)}

ArrayFrames ==
    {RespArray(<<>>)} \cup {RespArray(<<e>>) : e \in Elements}
    \cup {RespArray(<<e1, e2>>) : e1 \in Elements, e2 \in Elements}

\* A bulk frame written by hand: header length len, payload s
Crafted(len, s) == [t |-> "Crafted", len |-> len, s |-> s]

CraftedFrames ==
    {Crafted(-1, <<>>)}
    \cup {Crafted(len, s) : len \in 0..(MaxLen + 1), s \in StringsUpTo({"a"}, MaxLen)}

CodecFrames == FlatFrames \cup ArrayFrames \cup CraftedFrames

InitCodec ==
    /\ InitServer("codec")
    /\ Started
    /\ frame \in CodecFrames
    /\ wire = <<>>
    /\ src = "none"
    /\ outcome = NoOutcome

serverVars == <<now, db, mutex, poisoned, procAlive, args_cli, pc, inbuf, unsent,
                peerClosed, cmd, reply, out, flushed, req, sent, consumed, mode,
                lastSet, nulled, obs, rdb, boot>>

\* value.serialize()
Serialize ==
    /\ src = "none"
    /\ frame.t \notin {"None", "Crafted"}
    /\ wire' = serialize(frame)
    /\ src' = "whole"
    /\ UNCHANGED <<serverVars, frame, outcome>>

\* Only the first n bytes of the serialized frame have arrived
Truncate(n) ==
    /\ src = "whole"
    /\ outcome = NoOutcome
    /\ n < Len(wire)
    /\ wire' = SubSeq(wire, 1, n)
    /\ src' = "prefix"
    /\ UNCHANGED <<serverVars, frame, outcome>>

\* A client writes '$', a length, CRLF, a payload and CRLF; -1 has no payload
Craft ==
    /\ src = "none"
    /\ frame.t = "Crafted"
    /\ wire' = IF frame.len = -1
               THEN <<DOLLAR_SIGN_CHAR, "-", "1">> \o CRLF
               ELSE <<DOLLAR_SIGN_CHAR>> \o Decimal(frame.len) \o CRLF \o frame.s \o CRLF
    /\ src' = "crafted"
    /\ UNCHANGED <<serverVars, frame, outcome>>

\* parse_message(wire)
Parse ==
    /\ src \in {"whole", "prefix", "crafted"}
    /\ outcome = NoOutcome
    /\ \E allocOk \in BOOLEAN : outcome' = parse_message(wire, allocOk)
    /\ UNCHANGED <<serverVars, frame, wire, src>>

\* frame.get_command_and_args()
Extract ==
    /\ src = "none"
    /\ frame.t \notin {"None", "Crafted"}
    /\ outcome' = get_command_and_args(frame)
    /\ src' = "extract"
    /\ UNCHANGED <<serverVars, frame, wire>>

NextCodec ==
    \/ Serialize
    \/ \E n \in 0..(4 * MaxLen + 12) : Truncate(n)
    \/ Craft
    \/ Parse
    \/ Extract

SpecCodec == InitCodec /\ [][NextCodec]_vars


\* The parser has returned from the whole serialization of frame
ParsedWhole == src = "whole" /\ outcome # NoOutcome

\* C12: round trip.  For every frame F the serializer can produce,
\* parse_message(serialize(F)) returns F and a consumed count equal to the
\* byte length of serialize(F).
C12_RoundTrip ==
    ParsedWhole => outcome = Ok(frame, Len(wire))


\* The parser has returned from a proper prefix of the serialization of frame
ParsedPrefix == src = "prefix" /\ outcome # NoOutcome

\* C13: prefix-incomplete.  For every serialized frame and every proper prefix
\* of it, the empty one included, the parser reports the distinguished
\* incomplete outcome: not an error, not a parsed frame, not a panic or abort.
C13_PrefixIncomplete ==
    ParsedPrefix =>
        /\ outcome.r \notin {"Ok", "Err", "Panic", "Abort"}
        /\ outcome.r = "Incomplete"


\* C14: byte-transparent bulk.  For every payload B, the empty one and those
\* with CR, LF, CRLF or NUL in them included, parsing the serialization of
\* BulkString(B) returns BulkString(B), the payload unchanged.
C14_BulkTransparent ==
    (ParsedWhole /\ frame.t = "BulkString") =>
        (outcome.r = "Ok" /\ outcome.v = BulkString(frame.s))


\* The parser has returned from a bulk frame written by hand
ParsedCrafted == src = "crafted" /\ outcome # NoOutcome

\* C15: bulk string parsing honours the declared length.  For a '$' frame
\* with header length L the parser produces NullBulk when L = -1, and
\* otherwise a BulkString of exactly the L bytes after the header, followed
\* by CRLF; a frame whose payload is not L bytes long is not accepted as a
\* BulkString of the payload that is there.
C15_BulkLengthHonoured ==
    ParsedCrafted =>
        IF frame.len = -1
        THEN outcome.r = "Ok" /\ outcome.v = NullBulkString
        ELSE IF Len(frame.s) = frame.len
             THEN outcome.r = "Ok" /\ outcome.v = BulkString(frame.s)
             ELSE ~(outcome.r = "Ok" /\ outcome.v = BulkString(frame.s))


\* The command has been extracted from frame
Extracted == src = "extract"

\* frame is an array whose first element is a BulkString
NamedArray == frame.t = "RespArray" /\ frame.a # <<>> /\ frame.a[1].t = "BulkString"

\* C16 as stated: command extraction accepts only an array whose first element
\* is a BulkString, returning that string as the name and the whole array as
\* the arguments; every other top-level frame is a protocol error.
C16_ArrayOnly ==
    Extracted =>
        IF NamedArray
        THEN /\ outcome.r = "Ok"
             /\ outcome.v = [command |-> frame.a[1].s, args |-> frame.a]
        ELSE outcome.r = "Err"

\* C16 as amended: command extraction accepts an array whose first element is
\* a BulkString (the name, with the whole array as the arguments) and also a
\* top-level SimpleString (its text is the name, with no arguments); a
\* BulkString, NullBulk, the empty array and an array whose first element is
\* not a BulkString are errors and give no command.
C16_ArrayOrSimpleString ==
    Extracted =>
        CASE NamedArray ->
                /\ outcome.r = "Ok"
                /\ outcome.v = [command |-> frame.a[1].s, args |-> frame.a]
          [] frame.t = "SimpleString" ->
                /\ outcome.r = "Ok"
                /\ outcome.v = [command |-> frame.s, args |-> <<>>]
          [] OTHER -> outcome.r = "Err"

\* A SimpleString taken for a command
C16_Witness ==
    /\ Extracted
    /\ frame.t = "SimpleString" /\ frame.s # <<>>
    /\ outcome.r = "Ok" /\ outcome.v.command = frame.s


(***************************************************************************)
(* The command set.                                                        *)
(***************************************************************************)
CommandNames == {PING_COMMAND, ECHO_COMMAND, SET_COMMAND, GET_COMMAND,
                 CONFIG_COMMAND, KEYS_COMMAND}

\* name is NAME with each letter in upper or in lower case
Spelling(name, NAME) ==
    /\ Len(name) = Len(NAME)
    /\ \A i \in 1..Len(NAME) :
          \/ name[i] = NAME[i]
          \/ \E j \in 1..26 : Upper[j] = NAME[i] /\ Lower[j] = name[i]

\* The task of c went on from its last read the way handler result h says:
\* with the reply of h, to the keyspace with the command of h, or panicking
DispatchedAs(c, h) ==
    CASE h.k = "Reply" ->
            /\ cmd[c] = NoCmd
            /\ pc[c] \in {"write", "flush", "read"}
            /\ pc[c] = "write" => reply[c] = h.reply
      [] h.k = "Lock" ->
            /\ cmd[c] = h
            /\ pc[c] \in {"lock", "locked", "write", "flush", "read"}
      [] OTHER -> pc[c] = "panicked"

\* The task of c answers -ERR unknown command without going to the keyspace
UnknownAnswered(c) ==
    /\ cmd[c] = NoCmd
    /\ pc[c] \in {"write", "flush", "read"}
    /\ pc[c] = "write" =>
          /\ reply[c].t = "SimpleString"
          /\ Len(reply[c].s) >= Len(ErrUnknown)
          /\ SubSeq(reply[c].s, 1, Len(ErrUnknown)) =
                <<"-", "E", "R", "R", " ", "u", "n", "k", "n", "o", "w", "n", " ",
                  "c", "o", "m", "m", "a", "n", "d">>
    /\ pc[c] \in {"flush", "read"} =>
          out[c][Len(out[c])] = [bytes |-> UnknownReplyBytes,
                                 start |-> req[c].start, len |-> req[c].len]

\* C17: dispatch is case-insensitive and total.  A name that spells PING,
\* ECHO, SET, GET, CONFIG or KEYS in any mix of upper and lower case is
\* handled as the upper-case name is; every other name is answered with a
\* SimpleString starting with -ERR unknown command, the keyspace is not
\* accessed and the task stays on the connection.
C17_DispatchCaseInsensitive ==
    \A c \in Conns :
        req[c].r = "Ok" =>
            /\ \A NAME \in CommandNames :
                  Spelling(req[c].command, NAME) =>
                      DispatchedAs(c, Dispatch(NAME, req[c].args, req[c].at, args_cli))
            /\ (\A NAME \in CommandNames : ~Spelling(req[c].command, NAME))
                  => UnknownAnswered(c)

\* The first command, ping in lower case, was answered +PONG, a key is set,
\* and a name the table does not have has just been answered, the task back
\* at its read
C17_Witness ==
    \E c \in Conns :
        /\ Len(out[c]) >= 2
        /\ sent[c][1] = 1
        /\ out[c][1].bytes = <<"+", "P", "O", "N", "G", "\r", "\n">>
        /\ req[c].r = "Ok" /\ req[c].command = <<"F", "O", "O">>
        /\ pc[c] = "read" /\ flushed[c] = Len(out[c])
        /\ out[c][Len(out[c])].bytes = UnknownReplyBytes
        /\ KeyK \in DOMAIN db


\* The last command of c is CONFIG GET with a key, in any spelling of the
\* command and of the subcommand
ConfigGet(c) ==
    /\ req[c].r = "Ok"
    /\ Spelling(req[c].command, CONFIG_COMMAND)
    /\ Len(req[c].args) >= 3
    /\ req[c].args[2].t = "BulkString" /\ req[c].args[3].t = "BulkString"
    /\ Spelling(req[c].args[2].s, GET_COMMAND)

\* The reply CONFIG GET owes for a key
ConfigValue(key) ==
    CASE key = DIR_ARG_COMMAND /\ args_cli.dir # None ->
            RespArray(<<BulkString(DIR_ARG_COMMAND), BulkString(Unwrap(args_cli.dir))>>)
      [] key = DB_FILENAME_ARG_COMMAND /\ args_cli.dbfilename # None ->
            RespArray(<<BulkString(DB_FILENAME_ARG_COMMAND),
                        BulkString(Unwrap(args_cli.dbfilename))>>)
      [] OTHER -> NullBulkString

\* C18: CONFIG GET.  For any spelling of the subcommand GET, CONFIG GET dir
\* (or dbfilename) replies the array of the name and the value when the
\* option was given at startup, and NullBulk when the key is unknown or the
\* option was not given; the task never ends on it.
C18_ConfigGet ==
    \A c \in Conns :
        ConfigGet(c) =>
            /\ pc[c] \in {"write", "flush", "read"}
            /\ pc[c] = "write" => reply[c] = ConfigValue(req[c].args[3].s)


\* The last command of c is SET with a key and a value
SetCmd(c) ==
    /\ req[c].r = "Ok"
    /\ Spelling(req[c].command, SET_COMMAND)
    /\ Len(req[c].args) >= 3
    /\ \A i \in 2..Len(req[c].args) : req[c].args[i].t = "BulkString"

\* s is an unsigned integer in decimal
IsUnsigned(s) ==
    \/ s # <<>> /\ \A i \in 1..Len(s) : IsDigit(s[i])
    \/ Len(s) >= 2 /\ s[1] = "+" /\ \A i \in 2..Len(s) : IsDigit(s[i])

\* The expiry a SET read at clock reading at owes its entry
ExpiryOwed(a, at) ==
    IF Len(a) >= 5 /\ Spelling(a[4].s, PX_ARG_COMMAND) /\ IsUnsigned(a[5].s)
    THEN Some(at + ParseU64(a[5].s).v)
    ELSE None

\* C19: SET expiry selection.  SET key value [PX ms] always inserts key ->
\* value and replies SimpleString OK; the entry has expires_at = now + ms
\* exactly when argument 3 is PX in any case and argument 4 parses as an
\* unsigned integer, and no expiry in every other case.
C19_SetExpiry ==
    \A c \in Conns :
        SetCmd(c) =>
            /\ pc[c] \in {"lock", "locked", "write", "flush", "read"}
            /\ cmd[c] = [k |-> "Lock", op |-> "SET", key |-> req[c].args[2].s,
                         item |-> [data |-> req[c].args[3].s,
                                   expiration |-> ExpiryOwed(req[c].args, req[c].at)]]
            /\ pc[c] = "write" =>
                  /\ reply[c] = SimpleString(OK_STR)
                  /\ req[c].args[2].s \in DOMAIN db
                  /\ db[req[c].args[2].s] =
                        [data |-> req[c].args[3].s,
                         expiration |-> ExpiryOwed(req[c].args, req[c].at)]


\* c has executed KEYS * and holds its reply
KeysStar(c) ==
    pc[c] = "write" /\ cmd[c].k = "Lock" /\ cmd[c].op = "KEYS" /\ cmd[c].key = STAR

VALUE_TYPE_STRING == 0
EXPIRE_IN_MILLISECONDS == 252
EXPIRE_IN_SECONDS == 253
HASH_TABLE_SELECTOR == 251

\* The character of an ASCII byte, for the bytes the files of this model hold
\* inside their strings
AsciiChar(b) ==
    CASE b \in 97..122 -> Lower[b - 96]
      [] b \in 65..90 -> Upper[b - 64]
      [] b \in 48..57 -> Digits[b - 47]
      [] b = 0 -> NUL
      [] OTHER -> "0x01"

\* String::from_utf8 accepts the bytes.  Every byte below 0x80 is a character;
\* 0xC0 and 0xF8..0xFF occur in no UTF-8 text, and the files of this model
\* hold no other byte from 0x80 up.
IsUtf8Bytes(bytes) == \A i \in 1..Len(bytes) : bytes[i] < 128

\* String::from_utf8 of valid bytes
FromUtf8(bytes) == [i \in 1..Len(bytes) |-> AsciiChar(bytes[i])]

\* u64::from_le_bytes, u32::from_le_bytes
RECURSIVE from_le_bytes(_)
from_le_bytes(bytes) ==
    IF bytes = <<>> THEN 0 ELSE Head(bytes) + 256 * from_le_bytes(Tail(bytes))

\* get_decoded_string: the length byte, the slice, from_utf8
get_decoded_string(contents, pos) ==
    IF pos >= Len(contents) THEN Panic
    ELSE IF pos + 1 + contents[pos + 1] > Len(contents) THEN Panic
    ELSE IF ~IsUtf8Bytes(SubSeq(contents, pos + 2, pos + 1 + contents[pos + 1]))
    THEN Err
    ELSE Ok(FromUtf8(SubSeq(contents, pos + 2, pos + 1 + contents[pos + 1])),
            pos + 1 + contents[pos + 1])

get_decoded_expiry_time_ms(contents, pos) ==
    IF Len(contents) < pos + 8 THEN Err
    ELSE Ok(from_le_bytes(SubSeq(contents, pos + 1, pos + 8)), pos + 8)

get_decoded_expiry_time_seconds(contents, pos) ==
    IF Len(contents) < pos + 4 THEN Err
    ELSE Ok(1000 * from_le_bytes(SubSeq(contents, pos + 1, pos + 4)), pos + 4)

\* Result::unwrap of a decoded expiry, keeping the new position
UnwrapPos(res) == IF res.r = "Ok" THEN Ok(0, res.n) ELSE Panic

\* skip_header_metadata once the selector is found at pos: the two size
\* bytes are stepped over, and an expiry that follows them is decoded and
\* dropped.
AfterSelector(contents, pos) ==
    IF pos + 3 >= Len(contents) THEN Panic
    ELSE CASE contents[pos + 4] = EXPIRE_IN_MILLISECONDS ->
                UnwrapPos(get_decoded_expiry_time_ms(contents, pos + 4))
           [] contents[pos + 4] = EXPIRE_IN_SECONDS ->
                UnwrapPos(get_decoded_expiry_time_seconds(contents, pos + 4))
           [] OTHER -> Ok(0, pos + 3)

\* The positions from 9 on that hold the selector byte
SelectorsOf(contents) ==
    {p \in 9..(Len(contents) - 1) : contents[p + 1] = HASH_TABLE_SELECTOR}

\* The least position of a set of positions
FirstOf(P) == CHOOSE p \in P : \A q \in P : p <= q

\* skip_header_metadata: the position it returns, or its panic
skip_header_metadata(contents) ==
    IF SelectorsOf(contents) = {}
    THEN Ok(0, IF Len(contents) > 9 THEN Len(contents) ELSE 9)
    ELSE AfterSelector(contents, FirstOf(SelectorsOf(contents)))

\* The result of parse_rdb_file: the keyspace it built
Loaded(d) == [r |-> "Ok", db |-> d]

\* parse_rdb_file: the while loop, with its locals as arguments; a pair that
\* is followed by an expiry opcode is kept for the next round (continue), and
\* a pair at hand at the end of a round is inserted with the expiry at hand.
RECURSIVE ParseLoop(_, _, _, _, _)
EndOfRound(contents, pos, current_expiry, pair, d) ==
    IF pair # None
    THEN ParseLoop(contents, pos, None, None,
                   DbInsert(d, Unwrap(pair).key,
                            ItemOf(Unwrap(pair).value, current_expiry)))
    ELSE ParseLoop(contents, pos, current_expiry, None, d)

AfterValue(contents, key, value, current_expiry, d) ==
    IF value.r # "Ok" THEN value
    ELSE IF value.n >= Len(contents) THEN Panic
    ELSE IF contents[value.n + 1] \in {EXPIRE_IN_MILLISECONDS, EXPIRE_IN_SECONDS}
    THEN ParseLoop(contents, value.n, current_expiry,
                   Some([key |-> key.v, value |-> value.v]), d)
    ELSE EndOfRound(contents, value.n, current_expiry,
                    Some([key |-> key.v, value |-> value.v]), d)

AfterKey(contents, key, current_expiry, d) ==
    IF key.r # "Ok" THEN key
    ELSE AfterValue(contents, key, get_decoded_string(contents, key.n),
                    current_expiry, d)

AfterExpiry(contents, expiry, pair, d) ==
    IF expiry.r # "Ok" THEN expiry
    ELSE EndOfRound(contents, expiry.n, Some(expiry.v), pair, d)

ParseLoop(contents, pos, current_expiry, pair, d) ==
    IF pos >= Len(contents) THEN Loaded(d)
    ELSE CASE contents[pos + 1] = VALUE_TYPE_STRING ->
                AfterKey(contents, get_decoded_string(contents, pos + 1),
                         current_expiry, d)
           [] contents[pos + 1] = EXPIRE_IN_MILLISECONDS ->
                AfterExpiry(contents, get_decoded_expiry_time_ms(contents, pos + 1),
                            pair, d)
           [] contents[pos + 1] = EXPIRE_IN_SECONDS ->
                AfterExpiry(contents,
                            get_decoded_expiry_time_seconds(contents, pos + 1),
                            pair, d)
           [] OTHER -> EndOfRound(contents, pos + 1, current_expiry, pair, d)

ParseFrom(contents, start) ==
    IF start.r # "Ok" THEN start
    ELSE ParseLoop(contents, start.n, None, None, <<>>)

parse_rdb_file(contents) == ParseFrom(contents, skip_header_metadata(contents))

\* populate_database: a file that cannot be read gives the empty keyspace,
\* an error of the parser is handed on
populate_database(file) ==
    IF file = None THEN Loaded(<<>>) ELSE parse_rdb_file(Unwrap(file))

\* ArgsCli::can_be_parsed
can_be_parsed(cli) == cli.dir # None /\ cli.dbfilename # None

(***************************************************************************)
(* The snapshot files of the model.  A file is described by its records    *)
(* and written out byte by byte the way Redis writes it; the description   *)
(* stays in frame, the bytes are in rdb.                                   *)
(***************************************************************************)
\* "REDIS0011", and the same with a first byte that is not 'R'
Header(magic) ==
    IF magic THEN <<82, 69, 68, 73, 83, 48, 48, 49, 49>>
    ELSE <<88, 69, 68, 73, 83, 48, 48, 49, 49>>

ByteOf(ch) == 96 + (CHOOSE i \in 1..26 : Lower[i] = ch)
RdbString(s) == <<Len(s)>> \o [i \in 1..Len(s) |-> ByteOf(s[i])]

\* n in w little-endian bytes
RECURSIVE LE(_, _)
LE(n, w) == IF w = 0 THEN <<>> ELSE <<n % 256>> \o LE(n \div 256, w - 1)

\* The instant an expiry opcode names, in milliseconds
InstantOf(e) == IF e.op = "ms" THEN e.n ELSE 1000 * e.n

ExpiryBytes(e) ==
    IF e.op = "ms" THEN <<EXPIRE_IN_MILLISECONDS>> \o LE(e.n, 8)
    ELSE <<EXPIRE_IN_SECONDS>> \o LE(e.n, 4)

\* A record: a string pair with its optional expiry prefix, an expiry opcode
\* on its own, a list (type 0x01) of one element, a pair whose value is
\* stored as an 8-bit integer (a length byte of 0xC0 = 192, then the integer)
RecordBytes(rec) ==
    CASE rec.t = "pair" ->
            (IF rec.exp # None THEN ExpiryBytes(Unwrap(rec.exp)) ELSE <<>>)
            \o <<VALUE_TYPE_STRING>> \o RdbString(rec.key) \o RdbString(rec.value)
      [] rec.t = "expiry" -> ExpiryBytes(rec.e)
      [] rec.t = "list" ->
            <<1>> \o RdbString(rec.key) \o <<1>> \o RdbString(rec.value)
      [] OTHER -> <<VALUE_TYPE_STRING>> \o RdbString(rec.key) \o <<192, 1>>

Pairs(recs) == {i \in DOMAIN recs : recs[i].t \in {"pair", "int"}}
Expiring(recs) == {i \in DOMAIN recs : recs[i].t = "pair" /\ recs[i].exp # None}

\* The selector with the sizes of the two tables
SelectorBytes(recs) ==
    <<HASH_TABLE_SELECTOR, Cardinality(Pairs(recs)), Cardinality(Expiring(recs))>>

\* The bytes up to and including the first n records
UpToRecord(img, n) ==
    Header(img.magic)
    \o (IF img.selector THEN SelectorBytes(img.recs) ELSE <<>>)
    \o Concat([i \in 1..n |-> RecordBytes(img.recs[i])])

\* The bytes up to and including the EOF marker 0xFF
UpToEof(img) == UpToRecord(img, Len(img.recs)) \o <<255>>

ImageBytes(img) ==
    IF img.trailer = None THEN UpToRecord(img, Len(img.recs))
    ELSE UpToEof(img) \o Unwrap(img.trailer)

\* What is on disk: the whole image, or its first cut bytes
FileOf(img) ==
    IF img.t = "NoFile" THEN None
    ELSE IF img.cut = None THEN Some(ImageBytes(img))
    ELSE Some(SubSeq(ImageBytes(img), 1, Unwrap(img.cut)))

Pair(key, value, exp) == [t |-> "pair", key |-> key, value |-> value, exp |-> exp]
Millis1 == [op |-> "ms", n |-> 1]
Seconds1 == [op |-> "s", n |-> 1]
PairRecords ==
    {Pair(key, value, exp) : key \in {KeyK, KeyJ}, value \in {ValA, ValB},
                             exp \in {None, Some(Millis1), Some(Seconds1)}}
PlainPairs == {Pair(KeyK, ValA, None), Pair(KeyJ, ValB, None)}

\* Checksums: one whose bytes are no opcode of the subset, all zero (what
\* Redis writes with checksums off), three zeros first, and ones that begin
\* with an expiry opcode
ChecksumPlain == <<1, 1, 1, 1, 1, 1, 1, 1>>
ChecksumZero == <<0, 0, 0, 0, 0, 0, 0, 0>>
ChecksumPair == <<0, 0, 0, 1, 1, 1, 1, 1>>
ChecksumMs == <<EXPIRE_IN_MILLISECONDS, 1, 0, 0, 0, 0, 0, 0>>
ChecksumSeconds == <<EXPIRE_IN_SECONDS, 1, 0, 0, 0, 1, 1, 1>>
Checksums == {ChecksumPlain, ChecksumZero, ChecksumPair, ChecksumMs, ChecksumSeconds}

Image(magic, selector, recs, trailer, cut) ==
    [t |-> "Rdb", magic |-> magic, selector |-> selector, recs |-> recs,
     trailer |-> trailer, cut |-> cut]

UpToTwo(R) == {<<>>} \cup {<<r>> : r \in R} \cup {<<r, q>> : r \in R, q \in R}
UpToOne(R) == {<<>>} \cup {<<r>> : r \in R}

\* Whole files of up to two pairs
WholeImages ==
    {Image(TRUE, TRUE, recs, Some(ChecksumPlain), None) : recs \in UpToTwo(PairRecords)}

\* Files that differ in their checksum only
ChecksumImages ==
    {Image(TRUE, TRUE, recs, Some(ck), None) :
        recs \in UpToOne({Pair(KeyK, ValA, None)}), ck \in Checksums}

\* Files with no database section
HeaderImages ==
    {Image(TRUE, FALSE, <<>>, trailer, None) :
        trailer \in {None, Some(ChecksumPlain), Some(ChecksumZero)}}

\* Files with a record of another type, or an expiry opcode on its own,
\* between or after the pairs
OtherRecords ==
    {[t |-> "list", key |-> KeyJ, value |-> ValB],
     [t |-> "int", key |-> KeyJ],
     [t |-> "expiry", e |-> Millis1]}
MixedImages ==
    {Image(TRUE, TRUE, pre \o <<rec>> \o post, Some(ChecksumPlain), None) :
        pre \in UpToOne({Pair(KeyK, ValA, None)}), rec \in OtherRecords,
        post \in UpToOne({Pair(KeyJ, ValA, None)})}

\* Damaged files: another magic, and files cut short
DamagedBase ==
    {Image(TRUE, TRUE, <<Pair(KeyK, ValA, Some(Millis1))>>, Some(ChecksumPlain), None),
     Image(TRUE, TRUE, <<Pair(KeyK, ValA, None)>>, None, None)}
CutImages ==
    UNION {{[img EXCEPT !.cut = Some(n)] : n \in 0..(Len(ImageBytes(img)) - 1)} :
              img \in DamagedBase}
MagicImages ==
    {Image(FALSE, TRUE, recs, Some(ChecksumPlain), None) : recs \in UpToOne(PlainPairs)}

NoFile == [t |-> "NoFile"]

RdbImages ==
    WholeImages \cup ChecksumImages \cup HeaderImages \cup MixedImages
    \cup CutImages \cup MagicImages \cup DamagedBase \cup {NoFile}

(***************************************************************************)
(* Startup with a snapshot.                                                *)
(***************************************************************************)

\* handle_clients before its loop: with both options given the file is
\* loaded; an error of populate_database is returned through main, a panic
\* unwinds through main, and either way the process ends before any accept.
Startup ==
    /\ procAlive
    /\ boot = "start"
    /\ \E res \in {IF can_be_parsed(args_cli) THEN populate_database(rdb)
                   ELSE Loaded(<<>>)} :
         /\ outcome' = res
         /\ boot' = CASE res.r = "Ok" -> "serving"
                      [] res.r = "Err" -> "failed"
                      [] OTHER -> "panicked"
         /\ db' = IF res.r = "Ok" THEN res.db ELSE db
         /\ procAlive' = (res.r = "Ok")
    /\ UNCHANGED <<now, mutex, poisoned, args_cli, pc, inbuf, unsent, peerClosed,
                   cmd, reply, out, flushed, req, sent, consumed, mode, lastSet,
                   nulled, obs, frame, wire, src, rdb>>

InitRdb ==
    /\ InitServer("rdb")
    /\ frame \in RdbImages
    /\ rdb = FileOf(frame)
    /\ boot = "start"
    /\ wire = <<>>
    /\ src = "none"
    /\ outcome = NoOutcome

\* The snapshot scenario: the load, then one client that reads the keyspace.
NextRdb ==
    \/ Startup
    \/ Server
    \/ Sends

SpecRdb == InitRdb /\ [][NextRdb]_vars


(***************************************************************************)
(* The snapshot contract.  The load has happened once boot has left        *)
(* "start"; the description of the file in frame says what was written.    *)
(***************************************************************************)
Booted == boot # "start"

\* The file is there, whole, and begins with the magic
Intact == frame.t = "Rdb" /\ frame.magic /\ frame.cut = None

\* The string pairs of the file
Entries ==
    IF frame.t = "Rdb" THEN {i \in DOMAIN frame.recs : frame.recs[i].t = "pair"}
    ELSE {}

\* No later record of the file has the key of record i
Governs(i) ==
    \A j \in DOMAIN frame.recs :
        j > i => ~(frame.recs[j].t \in {"pair", "int"}
                   /\ frame.recs[j].key = frame.recs[i].key)

\* C21: once a whole file is loaded, every pair that was written with an
\* expiry opcode right before its type byte is in the keyspace with that
\* instant as its expiry (0xFC: the milliseconds, 0xFD: the seconds times
\* 1000), the first pair after the selector included.
C21_ExpiryPrefix ==
    (Booted /\ Intact) =>
        \A i \in Entries :
            (Governs(i) /\ frame.recs[i].exp # None) =>
                /\ boot = "serving"
                /\ frame.recs[i].key \in DOMAIN db
                /\ db[frame.recs[i].key].expiration
                     = Some(InstantOf(Unwrap(frame.recs[i].exp)))

\* The expiry opcodes of the file: the prefixes of its pairs and the opcodes
\* that stand on their own
ExpiryOpcodes ==
    {i \in DOMAIN frame.recs :
        \/ frame.recs[i].t = "expiry"
        \/ frame.recs[i].t = "pair" /\ frame.recs[i].exp # None}

\* C22: once a whole file is loaded, a pair written with no expiry opcode
\* before it is in the keyspace with no expiration, whatever expiry opcodes
\* the file has before or after it, and no more entries carry an expiration
\* than the file has expiry opcodes.
C22_EntryAssembly ==
    (Booted /\ Intact /\ boot = "serving") =>
        /\ \A i \in Entries :
              (Governs(i) /\ frame.recs[i].exp = None
               /\ frame.recs[i].key \in DOMAIN db) =>
                  db[frame.recs[i].key].expiration = None
        /\ Cardinality({k \in DOMAIN db : db[k].expiration # None})
             <= Cardinality(ExpiryOpcodes)

\* C23: whatever bytes the file holds (cut short anywhere, ending right
\* after a pair, holding a length byte of 64 or more), the load ends with a
\* keyspace or with an error value, never with a panic.
C23_NeverPanics ==
    Booted => outcome.r \in {"Ok", "Err"}

\* The file has a database section that ends with the EOF marker and its
\* checksum
HasTrailer == Intact /\ frame.selector /\ frame.trailer # None

\* C24: the load of a file with an EOF marker gives what the load of its
\* bytes up to and including the marker gives: the eight bytes of the
\* checksum, whatever they are, add no entry, change none and raise no error.
C24_StopsAtEof ==
    (Booted /\ HasTrailer /\ parse_rdb_file(UpToEof(frame)).r = "Ok") =>
        outcome = parse_rdb_file(UpToEof(frame))

\* The pairs among the first n records of the file, their keys, and the
\* value the last of them gives a key
PairsUpTo(n) == {i \in Entries : i <= n}
KeysUpTo(n) == {frame.recs[i].key : i \in PairsUpTo(n)}
ValueUpTo(key, n) ==
    frame.recs[CHOOSE i \in PairsUpTo(n) :
                  /\ frame.recs[i].key = key
                  /\ \A j \in PairsUpTo(n) : frame.recs[j].key = key => j <= i].value

\* The records of a type other than string
Unsupported ==
    IF frame.t = "Rdb" THEN {i \in DOMAIN frame.recs : frame.recs[i].t = "list"}
    ELSE {}

\* C25: once a whole file that holds a record of another value type is
\* loaded, the keyspace is exactly the pairs written before the first such
\* record: nothing at or after it adds an entry.
C25_StopsAtUnsupported ==
    (Booted /\ Intact /\ Unsupported # {}) =>
        /\ boot = "serving"
        /\ DOMAIN db = KeysUpTo(FirstOf(Unsupported) - 1)
        /\ \A key \in DOMAIN db :
              db[key].data = ValueUpTo(key, FirstOf(Unsupported) - 1)

\* Where a file may end and still be a sequence of whole records: after the
\* header, after the selector, after any record
Boundaries ==
    {9} \cup {Len(UpToRecord(frame, n)) : n \in 0..Len(frame.recs)}

\* The file is readable and its content is not a snapshot: it does not begin
\* with the magic, or it ends inside the header, the selector or a record
MalformedFile ==
    /\ frame.t = "Rdb"
    /\ \/ ~frame.magic
       \/ /\ frame.cut # None
          /\ Unwrap(frame.cut) < Len(UpToRecord(frame, Len(frame.recs)))
          /\ Unwrap(frame.cut) \notin Boundaries

\* C26: with both options given, a file that cannot be read leaves the
\* server serving an empty keyspace; a readable file with malformed content
\* makes populate_database return an error, which handle_clients returns
\* before any connection is accepted.
C26_StartupOutcome ==
    Booted =>
        /\ frame = NoFile => (boot = "serving" /\ procAlive /\ outcome = Loaded(<<>>))
        /\ MalformedFile =>
              /\ boot = "failed"
              /\ outcome = Err
              /\ \A c \in Conns : pc[c] = "queued"

\* The file is whole and its records are string pairs only
PairsOnly == Intact /\ \A i \in DOMAIN frame.recs : frame.recs[i].t = "pair"

\* C27: once a whole file of string pairs is loaded (a file of the header
\* alone included), the keys of the keyspace are exactly the keys written,
\* each with the value of the last pair written for it, and a GET of a
\* written key replies that value.
C27_ExactLoad ==
    (Booted /\ PairsOnly) =>
        /\ boot = "serving"
        /\ DOMAIN db = KeysUpTo(Len(frame.recs))
        /\ \A key \in DOMAIN db : db[key].data = ValueUpTo(key, Len(frame.recs))
        /\ \A c \in Conns :
              (GotReply(c) /\ cmd[c].key \in KeysUpTo(Len(frame.recs))) =>
                  reply[c] = BulkString(ValueUpTo(cmd[c].key, Len(frame.recs)))


(***************************************************************************)
(* Termination of a connection's task.  The tokio runtime polls every task *)
(* that can make progress, so each step of a task that stays enabled is    *)
(* eventually taken; the clients are under no obligation.                  *)
(***************************************************************************)
\* reader.read() returns for c: something has arrived, or the client closed
ReadReturns(c) ==
    procAlive /\ pc[c] = "read" /\ (inbuf[c] # <<>> \/ peerClosed[c])

\* Weak fairness of Read(c), written out with ReadReturns(c), which is what
\* enables Read(c)
ReadFair(c) == []<>(~ReadReturns(c)) \/ []<><<Read(c)>>_vars

TasksRun ==
    \A c \in Conns :
        /\ WF_vars(Accept(c))
        /\ ReadFair(c)
        /\ WF_vars(Lock(c))
        /\ WF_vars(Access(c))
        /\ WF_vars(Write(c))
        /\ WF_vars(Flush(c))

\* The closing scenario: clients that send whole frames and may close, under
\* fair scheduling of the tasks
InitClose == InitWith("close")
NextClose ==
    \/ Server
    \/ Sends
    \/ \E c \in Conns : Close(c)
SpecClose == InitClose /\ [][NextClose]_vars /\ TasksRun

\* The read of c returns zero bytes and run() returns Ok(())
ReadsEof(c) == pc[c] = "read" /\ pc'[c] = "done"

\* A step in which a task ends on a read of zero bytes writes nothing and
\* leaves the keyspace and its mutex alone, and a task that has ended so
\* writes nothing afterwards
EndsCleanly(c) ==
    /\ ReadsEof(c) =>
          /\ peerClosed[c] /\ inbuf[c] = <<>>
          /\ UNCHANGED <<db, mutex, poisoned, out, flushed>>
    /\ pc[c] = "done" => (pc'[c] = "done" /\ out'[c] = out[c])

\* C28: a task whose read returns zero bytes ends with success, writes
\* nothing further and does not touch the keyspace; and under fair
\* scheduling the task of every connection whose client has closed the
\* socket eventually ends in this way.
C28_ClosedTerminates ==
    /\ [][\A c \in Conns : EndsCleanly(c)]_vars
    /\ \A c \in Conns : (peerClosed[c] ~> pc[c] = "done")


(***************************************************************************)
(* The effect of the commands on the keyspace.                             *)
(***************************************************************************)

\* The effect scenario: one client that sends whole frames, and the clock.
InitEffect == InitWith("effect")
NextEffect ==
    \/ Server
    \/ Sends
    \/ Tick
SpecEffect == InitEffect /\ [][NextEffect]_vars

\* The step is the insert of the SET that c sent: the entry of its key is the
\* value it sent, and every other entry is as it was
InsertsOnly(c) ==
    /\ pc[c] = "locked" /\ pc'[c] = "write"
    /\ to_ascii_uppercase(req[c].command) = SET_COMMAND
    /\ DOMAIN db' = (DOMAIN db) \cup {req[c].args[2].s}
    /\ db'[req[c].args[2].s].data = req[c].args[3].s
    /\ \A k \in (DOMAIN db) \ {req[c].args[2].s} : db'[k] = db[k]

\* C29: in every step no key leaves the keyspace, and the keyspace changes
\* only in the insert of a SET, which changes the entry of its key alone;
\* PING, ECHO, GET (of an expired key too), KEYS, CONFIG and unknown commands
\* change nothing.
C29_KeyspaceFrame ==
    [][/\ DOMAIN db \subseteq DOMAIN db'
       /\ db' # db => \E c \in Conns : InsertsOnly(c)]_vars

\* A GET has found k expired, k is still in the keyspace, and a SET of j has
\* been added beside it
C29_Witness ==
    /\ KeyK \in nulled
    /\ KeyK \in DOMAIN db
    /\ KeyJ \in DOMAIN db
    /\ db[KeyK].data = ValB


(***************************************************************************)
(* The keyspace mutex and the failures of the tasks.                       *)
(***************************************************************************)

\* The ways a task ends other than by reading the end of the stream
Failed == {"panicked", "failed", "aborted"}

====
